---- MODULE Spec2Model ----
(***************************************************************************)
(* Model of the event-stream watcher of nexiahome/nestapi (src/watch.go):  *)
(* one client handle (NestAPI), the callers of Watch and StopWatching, and *)
(* for every session the four goroutines Watch starts: the read loop, the  *)
(* body closer, the cancellation listener and the forward loop.            *)
(* The read loop is modelled twice, frame by frame and ReadLine call by    *)
(* ReadLine call; the older revision of Watch (src/unnamed/part_000), the  *)
(* redirect check and doRequest (src/nestapi.go) have their own actions    *)
(* and specifications, and so has a caller whose calls do not overlap.     *)
(***************************************************************************)
EXTENDS Integers, Sequences, FiniteSets, TLC

(* ------------------------------ bounds -------------------------------- *)

\* number of Watch calls issued on the handle (each with a fresh channel)
MaxWatch == 2
\* number of StopWatching calls issued on the handle
MaxStop == 2
\* number of frames the server writes, over all streams together
MaxFrames == 1
\* the runs with a single Watch call: number of StopWatching calls, and
\* number of frames the server writes on the one stream
OneStop == 2
OneFrames == 3

\* the runs of the frame reader in detail: number of StopWatching calls,
\* number of frames the server writes, and the longest payload (in pieces)
FrameStop == 1
FrameFrames == 1
MaxData == 1

\* the redirect answers a server gives in a row, at most
MaxHops == 32

\* the highest status code a server answers with, and the 307 answers a
\* server gives to one doRequest call, at most
MaxStatus == 599
MaxRetry == 2
\* the runs of doRequest against a redirecting server: the 307 answers the
\* server gives to one call, at most
RetryHops == 32

\* the runs of the older revision of Watch: number of Watch calls, number
\* of StopWatching calls by the caller, and number of frames the server
\* writes
OldWatch == 2
OldStop == 2
OldFrames == 1

Watches == 1..MaxWatch
Stops == 1..(IF MaxStop > OneStop THEN MaxStop ELSE OneStop)

(* ------------------------- program constants -------------------------- *)

defaultRedirectLimit == 30

\* http.StatusTemporaryRedirect
StatusTemporaryRedirect == 307

EventTypePut == "put"
EventTypePatch == "patch"
EventTypeError == "event_error"
EventTypeAuthRevoked == "auth_revoked"
eventTypeKeepAlive == "keep-alive"
eventTypeCancel == "cancel"
eventTypeRulesDebug == "rules_debug"

\* the event types the switch on event.Type has a case for
FrameTypes ==
    {EventTypePut, EventTypePatch, eventTypeKeepAlive, eventTypeCancel,
     EventTypeAuthRevoked, eventTypeRulesDebug}

\* an event type the switch on event.Type has no case for
OtherType == "other"

\* the event types of the frames a server may write, the unknown one included
WireTypes == FrameTypes \cup {OtherType}

\* the line end ReadLine strips, and the two line prefixes of a frame
NL == "\n"
EventPrefix == "event: "
DataPrefix == "data: "

\* the pieces a server builds the payload of a put or patch frame from:
\* {"path":"/"}  {"path":1}  the torn  {"path":  and null
PathIsString == "{\"path\":\"/\"}"
PathIsNumber == "{\"path\":1}"
Torn == "{\"path\":"

PayloadAtoms == {PathIsString, PathIsNumber, Torn, "null"}

\* the payloads of put and patch frames, well-formed or not
Payloads == UNION {[1..n -> PayloadAtoms] : n \in 1..MaxData}

\* the data lines a server may write in a frame of type t; the payload of
\* the frames whose payload the read loop does not parse is null
DataLines(t) ==
    IF t \in {EventTypePut, EventTypePatch}
    THEN {<<DataPrefix>> \o p : p \in Payloads}
    ELSE {<<DataPrefix, "null">>}

\* no value (a nil event, an empty hand)
Nil == [Type |-> "nil", Path |-> "", Data |-> "nil", RawData |-> 0]

\* an empty http.Header, no response, no return value yet
NoHeader == [k \in {} |-> ""]

\* the result of a redirect check that let the request pass
CheckPassed == [ok |-> TRUE, hops |-> 0]

NoResponse == [StatusCode |-> 0, Body |-> "nil"]

NoReturn == [body |-> "nil", err |-> "none"]

\* the pieces of a URL: two hosts, the suffix String() appends to n.url
\* and doRequest cuts a Location at, and a query
HostA == "https://a"
HostB == "https://b"
JSONSuffix == "/.json"
AuthQuery == "?auth=t"

\* a response without a Location header
NoLocation == <<>>

\* the Location headers a server sends with a 307
Locations ==
    {<<HostB, JSONSuffix>>, <<HostB, JSONSuffix, AuthQuery>>, <<HostB>>}

VARIABLES
    watching,        \* NestAPI.watching, read and written under watchMtx
    wpc,             \* position of each Watch call
    spc,             \* position of each StopWatching call
    rl,              \* position of each session's read loop
    fl,              \* position of each session's forward loop
    ls,              \* position of each session's cancellation listener
    bc,              \* position of each session's body closer
    got,             \* the event the forward loop holds (range variable)
    scanErr,         \* the read loop's scanErr
    closedManually,  \* Watch's local closedManually, shared by two goroutines
    stopClosed,      \* number of close(stop) executed on the session's token
    bodyClosed,      \* number of resp.Body.Close() executed
    eventsClosed,    \* number of close() of the internal event channel
    notifClosed,     \* number of close() of the consumer channel
    wire,            \* the frames the read loop has read from the body
    delivered,       \* the events the consumer has received
    hStop,           \* history: was StopWatching invoked since the Watch call
                     \* began ("early"), with its session active ("active")
    hBrokeFirst,     \* history: the stream broke before any StopWatching
    quota,           \* the calls, frames and 307 answers this run may use
                     \* (never changes)
    result,          \* the result buffer of each read loop that is reading
                     \* a frame (a local of one pass of the scanning loop)
    body,            \* for each such read loop, the frame the server is
                     \* writing and how much of its data line has been read
    hErrAt,          \* history: the read at which a read loop got its error
    event,           \* the event of each read loop that is at a send of the
                     \* switch (a local of one pass of the scanning loop)
    viaLen,          \* redirect check: len(via), the requests made so far
    via0,            \* redirect check: via[0].Header
    req,             \* redirect check: req.Header of the request to come
    checkErr,        \* redirect check: what the last check returned
    resp,            \* doRequest: the response client.Do returned
    ret,             \* doRequest: what the call returned
    hops,            \* doRequest: the 307 answers followed by this call
    url              \* NestAPI.url, the handle's base URL

\* the frame reader in detail, and the request layer
readerVars == <<result, body, hErrAt, event>>

\* the handle and its calls
handleVars == <<watching, wpc, spc, notifClosed, hStop>>

requestVars == <<viaLen, via0, req, checkErr, resp, ret, hops, url>>

vars ==
    <<watching, wpc, spc, rl, fl, ls, bc, got, scanErr,
      closedManually, stopClosed, bodyClosed, eventsClosed, notifClosed,
      wire, delivered, hStop, hBrokeFirst, quota, readerVars, requestVars>>

\* everything that belongs to the sessions' goroutines and channels (and
\* the quota, which no step changes)
sessionVars ==
    <<rl, fl, ls, bc, got, scanErr, closedManually, stopClosed,
      bodyClosed, eventsClosed, wire, delivered, hBrokeFirst, quota>>

(* ------------------------------ helpers ------------------------------- *)

\* an unrecovered panic in a goroutine ends the whole program
Running == \A w \in Watches : rl[w] # "panic"

\* no Watch or StopWatching call is between its first and its last step
NoCallInProgress ==
    /\ \A w \in Watches : wpc[w] \notin {"reject", "set", "open", "fail"}
    /\ \A s \in Stops : spc[s] \notin {"send", "set"}

\* f without its entry for w
Without(f, w) == [v \in DOMAIN f \ {w} |-> f[v]]

\* a session exists once its stream is open, until its channel is closed
Active(w) == wpc[w] = "started" /\ notifClosed[w] = 0

FramesRead == LET RECURSIVE Sum(_)
                  Sum(S) == IF S = {} THEN 0
                            ELSE LET x == CHOOSE y \in S : TRUE
                                 IN Len(wire[x]) + Sum(S \ {x})
              IN Sum(Watches)

\* a switch whose rules_debug case ships the event like the cases above it
DispatchEmitsRulesDebug(t) ==
    t \in {EventTypePut, EventTypePatch, eventTypeCancel, EventTypeAuthRevoked,
           eventTypeRulesDebug}

\* a switch whose cancel case lacks the break out of the scanning loop
DispatchBreaksAuthOnly(t) ==
    t \in {EventTypeAuthRevoked}

\* the switch on event.Type: does the frame yield an event, does it end
\* the scanning loop
DispatchEmits(t) ==
    t \in {EventTypePut, EventTypePatch, eventTypeCancel, EventTypeAuthRevoked}

DispatchBreaks(t) ==
    t \in {eventTypeCancel, EventTypeAuthRevoked}

\* Event{Type: EventTypeError, Data: scanErr}
ErrorEvent(e) ==
    [Type |-> EventTypeError, Path |-> "", Data |-> e, RawData |-> 0]

\* what json.Unmarshal and data["path"].(string) make of the payload of a
\* put or patch frame: a JSON object with a string path ("object"), no
\* JSON ("invalid"), JSON without a string path ("nopath")
PayloadKinds == {"object", "invalid", "nopath"}

\* the payload kinds a frame of type t comes with: only the payload of a
\* put or patch frame is parsed
KindsOf(t) ==
    IF t \in {EventTypePut, EventTypePatch} THEN PayloadKinds ELSE {"object"}

\* the event the scanning loop builds from the k-th frame of the stream,
\* of type t; the payload of a frame and the members of the payload are
\* named by the frame's number.
\*   Event{Type: ..., RawData: ...}              (every type)
\*   event.Path = data["path"].(string); event.Data = data["data"]
\*                                               (put, patch)
\*   event.Data = the data line without "data: " (auth_revoked)
FrameEvent(t, k) ==
    [Type |-> t,
     Path |-> IF t \in {EventTypePut, EventTypePatch} THEN "/" ELSE "",
     Data |-> IF t \in {EventTypePut, EventTypePatch, EventTypeAuthRevoked}
              THEN ToString(k) ELSE "nil",
     RawData |-> k]

(* ------------------------------- Init --------------------------------- *)

InitHandle ==
    /\ watching = FALSE
    /\ wpc = [w \in Watches |-> "idle"]
    /\ spc = [s \in Stops |-> "idle"]
    /\ rl = [w \in Watches |-> "off"]
    /\ fl = [w \in Watches |-> "off"]
    /\ ls = [w \in Watches |-> "off"]
    /\ bc = [w \in Watches |-> "off"]
    /\ got = [w \in Watches |-> Nil]
    /\ scanErr = [w \in Watches |-> "nil"]
    /\ closedManually = [w \in Watches |-> FALSE]
    /\ stopClosed = [w \in Watches |-> 0]
    /\ bodyClosed = [w \in Watches |-> 0]
    /\ eventsClosed = [w \in Watches |-> 0]
    /\ notifClosed = [w \in Watches |-> 0]
    /\ wire = [w \in Watches |-> <<>>]
    /\ delivered = [w \in Watches |-> <<>>]
    /\ hStop = [w \in Watches |-> "none"]
    /\ hBrokeFirst = [w \in Watches |-> FALSE]
    /\ result = <<>>
    /\ body = <<>>
    /\ hErrAt = <<>>
    /\ event = <<>>

\* no request is under way
InitRequest ==
    /\ viaLen = 0
    /\ via0 = NoHeader
    /\ req = NoHeader
    /\ checkErr = CheckPassed
    /\ resp = NoResponse
    /\ ret = NoReturn
    /\ hops = 0
    /\ url = <<HostA>>

Init ==
    /\ InitHandle
    /\ InitRequest
    /\ quota = [watch |-> MaxWatch, stop |-> MaxStop, frames |-> MaxFrames,
                retry |-> 0]

\* one Watch call on the handle, and a longer stream
InitOne ==
    /\ InitHandle
    /\ InitRequest
    /\ quota = [watch |-> 1, stop |-> OneStop, frames |-> OneFrames,
                retry |-> 0]

(* --------------------------- NestAPI.Watch ---------------------------- *)

\* the calls are issued in the order of their numbers
WatchIssued(w) ==
    w <= quota.watch /\ (IF w = 1 THEN TRUE ELSE wpc[w - 1] # "idle")
StopIssued(s) ==
    s <= quota.stop /\ (IF s = 1 THEN TRUE ELSE spc[s - 1] # "idle")

\* n.isWatching() returned true
WatchReject(w) ==
    /\ wpc[w] = "idle" /\ WatchIssued(w)
    /\ Running
    /\ watching
    /\ wpc' = [wpc EXCEPT ![w] = "reject"]
    /\ UNCHANGED <<watching, spc, notifClosed, hStop>>
    /\ UNCHANGED sessionVars
    /\ UNCHANGED <<readerVars, requestVars>>

\* then, the lock released: close(notifications); return nil
WatchRejectClose(w) ==
    /\ wpc[w] = "reject"
    /\ Running
    /\ notifClosed' = [notifClosed EXCEPT ![w] = @ + 1]
    /\ wpc' = [wpc EXCEPT ![w] = "rejected"]
    /\ UNCHANGED <<watching, spc, hStop>>
    /\ UNCHANGED sessionVars
    /\ UNCHANGED <<readerVars, requestVars>>

\* n.isWatching() returned false
WatchCheck(w) ==
    /\ wpc[w] = "idle" /\ WatchIssued(w)
    /\ Running
    /\ ~watching
    /\ wpc' = [wpc EXCEPT ![w] = "set"]
    /\ hStop' = [hStop EXCEPT
                    ![w] = IF \E s \in Stops : spc[s] = "send"
                           THEN "early" ELSE "none"]
    /\ UNCHANGED <<watching, spc, notifClosed>>
    /\ UNCHANGED sessionVars
    /\ UNCHANGED <<readerVars, requestVars>>

\* n.setWatching(true)
WatchSetWatching(w) ==
    /\ wpc[w] = "set"
    /\ Running
    /\ watching' = TRUE
    /\ wpc' = [wpc EXCEPT ![w] = "open"]
    /\ UNCHANGED <<spc, notifClosed, hStop>>
    /\ UNCHANGED sessionVars
    /\ UNCHANGED <<readerVars, requestVars>>

\* a watch() whose error returns lack the n.setWatching(false)
WatchOpenFailKeepsFlag(w) ==
    /\ wpc[w] = "open"
    /\ Running
    /\ wpc' = [wpc EXCEPT ![w] = "fail"]
    /\ UNCHANGED <<watching, spc, notifClosed, hStop>>
    /\ UNCHANGED sessionVars
    /\ UNCHANGED <<readerVars, requestVars>>

\* n.watch(stop) fails (http.NewRequest or n.client.Do returns an error):
\* n.setWatching(false); return nil, err
WatchOpenFail(w) ==
    /\ wpc[w] = "open"
    /\ Running
    /\ watching' = FALSE
    /\ wpc' = [wpc EXCEPT ![w] = "fail"]
    /\ UNCHANGED <<spc, notifClosed, hStop>>
    /\ UNCHANGED sessionVars
    /\ UNCHANGED <<readerVars, requestVars>>

\* back in Watch: if err != nil { return err }
WatchReturnErr(w) ==
    /\ wpc[w] = "fail"
    /\ Running
    /\ wpc' = [wpc EXCEPT ![w] = "failed"]
    /\ UNCHANGED <<watching, spc, notifClosed, hStop>>
    /\ UNCHANGED sessionVars
    /\ UNCHANGED <<readerVars, requestVars>>

\* n.watch(stop) succeeds and starts the body closer and the read loop;
\* Watch starts the cancellation listener and the forward loop, returns nil
WatchOpenOk(w) ==
    /\ wpc[w] = "open"
    /\ Running
    /\ wpc' = [wpc EXCEPT ![w] = "started"]
    /\ rl' = [rl EXCEPT ![w] = "read"]
    /\ bc' = [bc EXCEPT ![w] = "wait"]
    /\ ls' = [ls EXCEPT ![w] = "wait"]
    /\ fl' = [fl EXCEPT ![w] = "recv"]
    /\ UNCHANGED <<watching, spc, got, scanErr, closedManually,
                   stopClosed, bodyClosed, eventsClosed, notifClosed, wire,
                   delivered, hStop, hBrokeFirst, quota>>
    /\ UNCHANGED <<readerVars, requestVars>>

(* ------------------------ NestAPI.StopWatching ------------------------ *)

\* a StopWatching that signals without looking at the flag
StopIsWatchingUnchecked(s) ==
    /\ spc[s] = "idle" /\ StopIssued(s)
    /\ Running
    /\ spc' = [spc EXCEPT ![s] = "send"]
    /\ hStop' = [w \in Watches |-> IF Active(w) THEN "active" ELSE hStop[w]]
    /\ UNCHANGED <<watching, wpc, notifClosed>>
    /\ UNCHANGED sessionVars
    /\ UNCHANGED <<readerVars, requestVars>>

\* if n.isWatching() { ... }
StopIsWatching(s) ==
    /\ spc[s] = "idle" /\ StopIssued(s)
    /\ Running
    /\ spc' = [spc EXCEPT ![s] = IF watching THEN "send" ELSE "noop"]
    /\ hStop' = [w \in Watches |->
                    IF Active(w) THEN "active"
                    ELSE IF wpc[w] \in {"set", "open"} /\ hStop[w] = "none"
                         THEN "early"
                         ELSE hStop[w]]
    /\ UNCHANGED <<watching, wpc, notifClosed, quota>>
    /\ UNCHANGED sessionVars
    /\ UNCHANGED <<readerVars, requestVars>>

\* n.stopWatching <- struct{}{} meets a listener's <-n.stopWatching
StopSignal(s, w) ==
    /\ spc[s] = "send"
    /\ Running
    /\ ls[w] = "wait"
    /\ spc' = [spc EXCEPT ![s] = "set"]
    /\ ls' = [ls EXCEPT ![w] = "write"]
    /\ UNCHANGED <<watching, wpc, rl, fl, bc, got, scanErr,
                   closedManually, stopClosed, bodyClosed, eventsClosed,
                   notifClosed, wire, delivered, hStop, hBrokeFirst, quota>>
    /\ UNCHANGED <<readerVars, requestVars>>

\* a StopWatching that does not flip the flag back
StopSetWatchingKeepsFlag(s) ==
    /\ spc[s] = "set"
    /\ Running
    /\ spc' = [spc EXCEPT ![s] = "done"]
    /\ UNCHANGED <<watching, wpc, notifClosed, hStop>>
    /\ UNCHANGED sessionVars
    /\ UNCHANGED <<readerVars, requestVars>>

\* n.setWatching(false)
StopSetWatching(s) ==
    /\ spc[s] = "set"
    /\ Running
    /\ watching' = FALSE
    /\ spc' = [spc EXCEPT ![s] = "done"]
    /\ UNCHANGED <<wpc, notifClosed, hStop>>
    /\ UNCHANGED sessionVars
    /\ UNCHANGED <<readerVars, requestVars>>

(* ----------------------- cancellation listener ------------------------ *)

\* closedManually = true; close(stop)
ListenerWrite(w) ==
    /\ ls[w] = "write"
    /\ Running
    /\ closedManually' = [closedManually EXCEPT ![w] = TRUE]
    /\ stopClosed' = [stopClosed EXCEPT ![w] = @ + 1]
    /\ ls' = [ls EXCEPT ![w] = "done"]
    /\ UNCHANGED <<watching, wpc, spc, rl, fl, bc, got, scanErr, bodyClosed,
                   eventsClosed, notifClosed, wire, delivered, hStop,
                   hBrokeFirst, quota>>
    /\ UNCHANGED <<readerVars, requestVars>>

(* ---------------------------- body closer ----------------------------- *)

\* <-stop; defer resp.Body.Close()
BodyCloser(w) ==
    /\ bc[w] = "wait"
    /\ Running
    /\ stopClosed[w] > 0
    /\ bodyClosed' = [bodyClosed EXCEPT ![w] = @ + 1]
    /\ bc' = [bc EXCEPT ![w] = "done"]
    /\ UNCHANGED <<watching, wpc, spc, rl, fl, ls, got, scanErr,
                   closedManually, stopClosed, eventsClosed, notifClosed,
                   wire, delivered, hStop, hBrokeFirst, quota>>
    /\ UNCHANGED <<readerVars, requestVars>>

(* ----------------------------- read loop ------------------------------ *)
(* The read loop sends on an unbuffered channel that only the forward     *)
(* loop receives from. Reading a frame and handing its event over are two *)
(* steps: after the switch has built the event the loop is blocked at its *)
(* send ("ship", "shiperr") until the forward loop is at its receive.     *)

\* the switch on event.Type for the event ev built from a frame whose
\* payload is of kind k: where the scanning loop stands afterwards
Switch(w, ev, k) ==
    IF ev.Type \in {EventTypePut, EventTypePatch} /\ k = "invalid"
    THEN \* json.Unmarshal fails: scanErr = err; break scanning
         /\ scanErr' = [scanErr EXCEPT ![w] = "decode"]
         /\ rl' = [rl EXCEPT ![w] = "shiperr"]
         /\ UNCHANGED <<event, eventsClosed>>
    ELSE IF ev.Type \in {EventTypePut, EventTypePatch} /\ k = "nopath"
    THEN \* data["path"].(string) panics
         /\ rl' = [rl EXCEPT ![w] = "panic"]
         /\ UNCHANGED <<scanErr, event, eventsClosed>>
    ELSE IF DispatchEmits(ev.Type)
    THEN \* notifications <- event
         /\ event' = (w :> ev) @@ event
         /\ rl' = [rl EXCEPT ![w] = "ship"]
         /\ UNCHANGED <<scanErr, eventsClosed>>
    ELSE IF DispatchBreaks(ev.Type)
    THEN \* break scanning; close(notifications)
         /\ rl' = [rl EXCEPT ![w] = "done"]
         /\ eventsClosed' = [eventsClosed EXCEPT ![w] = @ + 1]
         /\ UNCHANGED <<scanErr, event>>
    ELSE \* nothing to do: the next pass of the scanning loop
         /\ rl' = [rl EXCEPT ![w] = "read"]
         /\ UNCHANGED <<scanErr, event, eventsClosed>>

\* one pass of the scanning loop up to its send: the three ReadLine calls
\* return a whole frame of type t whose payload is of kind k, the event is
\* built and the switch is entered
ReadFrame(w, t, k) ==
    /\ rl[w] = "read"
    /\ Running
    /\ FramesRead < quota.frames
    /\ k \in KindsOf(t)
    /\ wire' = [wire EXCEPT ![w] = Append(@, t)]
    /\ Switch(w, FrameEvent(t, Len(wire[w]) + 1), k)
    /\ UNCHANGED <<watching, wpc, spc, fl, ls, bc, got, closedManually,
                   stopClosed, bodyClosed, notifClosed, delivered,
                   hStop, hBrokeFirst, quota>>
    /\ UNCHANGED <<result, body, hErrAt, requestVars>>

\* notifications <- event in the switch meets the forward loop's receive;
\* after the send of a cancel or auth_revoked event the loop is left and
\* close(notifications) follows
Ship(w) ==
    /\ rl[w] = "ship"
    /\ Running
    /\ fl[w] = "recv"
    /\ got' = [got EXCEPT ![w] = event[w]]
    /\ fl' = [fl EXCEPT ![w] = "send"]
    /\ event' = Without(event, w)
    /\ IF DispatchBreaks(event[w].Type)
       THEN /\ rl' = [rl EXCEPT ![w] = "done"]
            /\ eventsClosed' = [eventsClosed EXCEPT ![w] = @ + 1]
       ELSE /\ rl' = [rl EXCEPT ![w] = "read"]
            /\ UNCHANGED eventsClosed
    /\ UNCHANGED <<watching, wpc, spc, ls, bc, scanErr, closedManually,
                   stopClosed, bodyClosed, notifClosed, wire, delivered,
                   hStop, hBrokeFirst, quota>>
    /\ UNCHANGED <<result, body, hErrAt, requestVars>>

\* if scanErr != nil { notifications <- Event{Type: EventTypeError, ...} }
\* meets the forward loop's receive; close(notifications) follows
ShipError(w) ==
    /\ rl[w] = "shiperr"
    /\ Running
    /\ fl[w] = "recv"
    /\ got' = [got EXCEPT ![w] = ErrorEvent(scanErr[w])]
    /\ fl' = [fl EXCEPT ![w] = "check"]
    /\ rl' = [rl EXCEPT ![w] = "done"]
    /\ eventsClosed' = [eventsClosed EXCEPT ![w] = @ + 1]
    /\ UNCHANGED <<watching, wpc, spc, ls, bc, scanErr, closedManually,
                   stopClosed, bodyClosed, notifClosed, wire, delivered,
                   hStop, hBrokeFirst, quota>>
    /\ UNCHANGED <<readerVars, requestVars>>

\* a read loop that tests scanErr only after the switch, and so still
\* takes a frame whose blank line failed to arrive for a frame read
ReadErrorAfterSwitch(w, e) ==
    /\ rl[w] \in {"read", "data", "blank"}
    /\ Running
    /\ scanErr' = [scanErr EXCEPT ![w] = e]
    /\ rl' = [rl EXCEPT ![w] = "shiperr"]
    /\ wire' = [wire EXCEPT
                   ![w] = IF rl[w] = "blank" THEN Append(@, body[w].type) ELSE @]
    /\ UNCHANGED <<watching, wpc, spc, fl, ls, bc, got, closedManually,
                   stopClosed, bodyClosed, eventsClosed, notifClosed,
                   delivered, hStop, quota>>
    /\ hErrAt' = (w :> rl[w]) @@ hErrAt
    /\ UNCHANGED <<result, body, event, requestVars>>

\* a ReadLine call returns the error e: scanErr is set and the scanning
\* loop is left at once (break scanning), towards the send of the error
\* event
ReadError(w, e) ==
    /\ rl[w] \in {"read", "data", "blank"}
    /\ Running
    /\ scanErr' = [scanErr EXCEPT ![w] = e]
    /\ rl' = [rl EXCEPT ![w] = "shiperr"]
    /\ UNCHANGED <<watching, wpc, spc, fl, ls, bc, got, closedManually,
                   stopClosed, bodyClosed, eventsClosed, notifClosed, wire,
                   delivered, hStop, quota>>
    /\ hErrAt' = (w :> rl[w]) @@ hErrAt
    /\ UNCHANGED <<result, body, event, requestVars>>

\* a ReadLine call returns an error although the body was not closed by
\* this client (EOF, connection reset): break scanning with scanErr set
ReadFault(w) ==
    /\ bodyClosed[w] = 0
    /\ ReadError(w, "fault")
    /\ hBrokeFirst' = [hBrokeFirst EXCEPT ![w] = hStop[w] = "none"]

\* a ReadLine call returns the error of a body closed by the body closer
ReadClosed(w) ==
    /\ bodyClosed[w] > 0
    /\ ReadError(w, "closed")
    /\ UNCHANGED hBrokeFirst

(* ----------------------- the read loop in detail ---------------------- *)
(* The same scanning loop, one ReadLine call at a time, over lines made   *)
(* of pieces of text: ReadEventLine, ReadDataLine (once per fragment) and *)
(* ReadBlankLine together are one ReadFrame.                              *)

\* strings.Split(s, sep) on a text of pieces, sep being one piece
Split(s, sep) ==
    LET RECURSIVE Cut(_)
        Cut(t) ==
            IF \A i \in 1..Len(t) : t[i] # sep THEN <<t>>
            ELSE LET i == CHOOSE i \in 1..Len(t) :
                              t[i] = sep /\ \A j \in 1..(i - 1) : t[j] # sep
                 IN <<SubSeq(t, 1, i - 1)>> \o Cut(SubSeq(t, i + 1, Len(t)))
    IN Cut(s)

\* strings.Replace(s, old, "", 1), old being one piece
Replace1(s, old) ==
    IF \A i \in 1..Len(s) : s[i] # old THEN s
    ELSE LET i == CHOOSE i \in 1..Len(s) :
                      s[i] = old /\ \A j \in 1..(i - 1) : s[j] # old
         IN SubSeq(s, 1, i - 1) \o SubSeq(s, i + 1, Len(s))

\* the string of a text that is one piece long (a longer one is the name
\* of no event type)
Text(s) == IF Len(s) = 1 THEN s[1] ELSE ""

\* txt := string(result); parts := strings.Split(txt, "\n");
\* Event{Type: ..., RawData: ...}
ParseEvent(res) ==
    LET parts == Split(res, NL)
    IN [Type |-> Text(Replace1(parts[1], EventPrefix)),
        Path |-> "",
        Data |-> "nil",
        RawData |-> Replace1(parts[2], DataPrefix)]

\* json.Unmarshal into a map[string]interface{} and data["path"].(string):
\* "object" when both succeed, "invalid" when Unmarshal fails, "nopath"
\* when the type assertion fails. Of the texts made of the payload pieces,
\* the JSON documents are {"path":"/"}, {"path":1} and null (which leaves
\* the map nil); a text of several pieces has an unclosed brace or text
\* after its first document.
JSONKind(p) ==
    IF p = <<PathIsString>> THEN "object"
    ELSE IF p \in {<<PathIsNumber>>, <<"null">>} THEN "nopath"
    ELSE "invalid"

\* data["path"].(string) and data["data"] of the payload {"path":"/"},
\* which has no data member
JSONPath(p) == "/"

JSONData(p) == "nil"

\* the fields the cases of the switch set before they ship the event:
\* event.Path and event.Data (put, patch), event.Data (auth_revoked)
SetFields(ev) ==
    IF ev.Type \in {EventTypePut, EventTypePatch}
    THEN [ev EXCEPT !.Path = JSONPath(ev.RawData), !.Data = JSONData(ev.RawData)]
    ELSE IF ev.Type = EventTypeAuthRevoked
         THEN [ev EXCEPT !.Data = ev.RawData]
         ELSE ev

\* a data loop that takes the first fragment for the whole line
ReadDataLineOnce(w, n, isPrefix) ==
    /\ rl[w] = "data"
    /\ Running
    /\ n \in 0..(Len(body[w].line) - body[w].sent)
    /\ body[w].sent + n < Len(body[w].line) => isPrefix
    /\ isPrefix => n >= 1
    /\ result' = [result EXCEPT
                     ![w] = @ \o SubSeq(body[w].line, body[w].sent + 1,
                                        body[w].sent + n) \o <<NL>>]
    /\ body' = [body EXCEPT ![w].sent = @ + n, ![w].reads = @ + 1]
    /\ rl' = [rl EXCEPT ![w] = "blank"]
    /\ UNCHANGED <<watching, wpc, spc, fl, ls, bc, got, scanErr,
                   closedManually, stopClosed, bodyClosed, eventsClosed,
                   notifClosed, wire, delivered, hStop, hBrokeFirst, quota,
                   hErrAt, event, requestVars>>

\* evt, isPrefix, scanErr = scanner.ReadLine() returns the event line of
\* a frame of type t whose data line is l; result = evt + "\n"
ReadEventLine(w, t, l) ==
    /\ rl[w] = "read"
    /\ Running
    /\ FramesRead < quota.frames
    /\ l \in DataLines(t)
    /\ body' = (w :> [type |-> t, line |-> l, sent |-> 0, reads |-> 0]) @@ body
    /\ result' = (w :> <<EventPrefix, t, NL>>) @@ result
    /\ rl' = [rl EXCEPT ![w] = "data"]
    /\ UNCHANGED <<watching, wpc, spc, fl, ls, bc, got, scanErr,
                   closedManually, stopClosed, bodyClosed, eventsClosed,
                   notifClosed, wire, delivered, hStop, hBrokeFirst, quota,
                   hErrAt, event, requestVars>>

\* dat, isPrefix, scanErr = scanner.ReadLine() returns the next n pieces
\* of the data line: a fragment that is not the last is flagged and is not
\* empty; result = append(result, dat...), and after the last fragment the
\* "\n" is added
ReadDataLine(w, n, isPrefix) ==
    /\ rl[w] = "data"
    /\ Running
    /\ n \in 0..(Len(body[w].line) - body[w].sent)
    /\ body[w].sent + n < Len(body[w].line) => isPrefix
    /\ isPrefix => n >= 1
    /\ result' = [result EXCEPT
                     ![w] = @ \o SubSeq(body[w].line, body[w].sent + 1,
                                        body[w].sent + n)
                              \o (IF isPrefix THEN <<>> ELSE <<NL>>)]
    /\ body' = [body EXCEPT ![w].sent = @ + n, ![w].reads = @ + 1]
    /\ rl' = [rl EXCEPT ![w] = IF isPrefix THEN "data" ELSE "blank"]
    /\ UNCHANGED <<watching, wpc, spc, fl, ls, bc, got, scanErr,
                   closedManually, stopClosed, bodyClosed, eventsClosed,
                   notifClosed, wire, delivered, hStop, hBrokeFirst, quota,
                   hErrAt, event, requestVars>>

\* _, _, scanErr = scanner.ReadLine() returns the line after the data
\* line; the event is built from result and the switch on event.Type is
\* entered; a put or patch payload is parsed first
ReadBlankLine(w) ==
    LET ev == ParseEvent(result[w])
    IN /\ Running
       /\ rl[w] = "blank"
       /\ wire' = [wire EXCEPT ![w] = Append(@, body[w].type)]
       /\ body' = Without(body, w)
       /\ result' = Without(result, w)
       /\ Switch(w, SetFields(ev), JSONKind(ev.RawData))
       /\ UNCHANGED <<watching, wpc, spc, fl, ls, bc, got, closedManually,
                      stopClosed, bodyClosed, notifClosed, delivered, hStop,
                      hBrokeFirst, quota, hErrAt, requestVars>>

(* ---------------------------- forward loop ---------------------------- *)

\* the values a read of closedManually can return: the write and the read
\* are ordered only through close(stop), Body.Close and the read error that
\* closing causes; otherwise they race and the read may miss the write
ClosedManuallyReads(w) ==
    IF ~closedManually[w] THEN {FALSE}
    ELSE IF got[w].Data = "closed" THEN {TRUE}
    ELSE {FALSE, TRUE}

\* a forward loop that closes the consumer channel before its break, and
\* again after the loop
ForwardCheckClosesAtBreak(w, v) ==
    /\ fl[w] = "check"
    /\ Running
    /\ v \in ClosedManuallyReads(w)
    /\ IF v
       THEN /\ fl' = [fl EXCEPT ![w] = "done"]
            /\ got' = [got EXCEPT ![w] = Nil]
            /\ notifClosed' = [notifClosed EXCEPT ![w] = @ + 2]
       ELSE /\ fl' = [fl EXCEPT ![w] = "send"]
            /\ UNCHANGED <<got, notifClosed>>
    /\ UNCHANGED <<watching, wpc, spc, rl, ls, bc, scanErr, closedManually,
                   stopClosed, bodyClosed, eventsClosed, wire, delivered,
                   hStop, hBrokeFirst, quota>>
    /\ UNCHANGED <<readerVars, requestVars>>

\* if event.Type == EventTypeError && closedManually { break }, and after
\* the break close(notifications)
ForwardCheck(w, v) ==
    /\ fl[w] = "check"
    /\ Running
    /\ v \in ClosedManuallyReads(w)
    /\ IF v
       THEN /\ fl' = [fl EXCEPT ![w] = "done"]
            /\ got' = [got EXCEPT ![w] = Nil]
            /\ notifClosed' = [notifClosed EXCEPT ![w] = @ + 1]
       ELSE /\ fl' = [fl EXCEPT ![w] = "send"]
            /\ UNCHANGED <<got, notifClosed>>
    /\ UNCHANGED <<watching, wpc, spc, rl, ls, bc, scanErr, closedManually,
                   stopClosed, bodyClosed, eventsClosed, wire, delivered,
                   hStop, hBrokeFirst, quota>>
    /\ UNCHANGED <<readerVars, requestVars>>

\* a forward loop that suppresses every event, not only the error event,
\* once closedManually is set
DeliverUnlessClosed(w) ==
    /\ fl[w] = "send"
    /\ Running
    /\ delivered' = [delivered EXCEPT
                        ![w] = IF closedManually[w] THEN @ ELSE Append(@, got[w])]
    /\ got' = [got EXCEPT ![w] = Nil]
    /\ fl' = [fl EXCEPT ![w] = "recv"]
    /\ UNCHANGED <<watching, wpc, spc, rl, ls, bc, scanErr, closedManually,
                   stopClosed, bodyClosed, eventsClosed, notifClosed, wire,
                   hStop, hBrokeFirst, quota>>
    /\ UNCHANGED <<readerVars, requestVars>>

\* notifications <- event in the forward loop meets the consumer's receive
Deliver(w) ==
    /\ fl[w] = "send"
    /\ Running
    /\ delivered' = [delivered EXCEPT ![w] = Append(@, got[w])]
    /\ got' = [got EXCEPT ![w] = Nil]
    /\ fl' = [fl EXCEPT ![w] = "recv"]
    /\ UNCHANGED <<watching, wpc, spc, rl, ls, bc, scanErr, closedManually,
                   stopClosed, bodyClosed, eventsClosed, notifClosed, wire,
                   hStop, hBrokeFirst, quota>>
    /\ UNCHANGED <<readerVars, requestVars>>

\* the range over the closed event channel ends; close(notifications)
ForwardClose(w) ==
    /\ fl[w] = "recv"
    /\ Running
    /\ eventsClosed[w] > 0
    /\ notifClosed' = [notifClosed EXCEPT ![w] = @ + 1]
    /\ fl' = [fl EXCEPT ![w] = "done"]
    /\ UNCHANGED <<watching, wpc, spc, rl, ls, bc, got, scanErr,
                   closedManually, stopClosed, bodyClosed, eventsClosed,
                   wire, delivered, hStop, hBrokeFirst, quota>>
    /\ UNCHANGED <<readerVars, requestVars>>

(* --------------------------- specification ---------------------------- *)

Next ==
    \/ \E w \in Watches : WatchReject(w)
    \/ \E w \in Watches : WatchRejectClose(w)
    \/ \E w \in Watches : WatchCheck(w)
    \/ \E w \in Watches : WatchSetWatching(w)
    \/ \E w \in Watches : WatchOpenFail(w)
    \/ \E w \in Watches : WatchReturnErr(w)
    \/ \E w \in Watches : WatchOpenOk(w)
    \/ \E s \in Stops : StopIsWatching(s)
    \/ \E s \in Stops, w \in Watches : StopSignal(s, w)
    \/ \E s \in Stops : StopSetWatching(s)
    \/ \E w \in Watches : ListenerWrite(w)
    \/ \E w \in Watches : BodyCloser(w)
    \/ \E w \in Watches, t \in WireTypes, k \in PayloadKinds :
          ReadFrame(w, t, k)
    \/ \E w \in Watches : Ship(w)
    \/ \E w \in Watches : ReadFault(w)
    \/ \E w \in Watches : ReadClosed(w)
    \/ \E w \in Watches : ShipError(w)
    \/ \E w \in Watches, v \in BOOLEAN : ForwardCheck(w, v)
    \/ \E w \in Watches : Deliver(w)
    \/ \E w \in Watches : ForwardClose(w)

Spec == Init /\ [][Next]_vars

\* the goroutines of a session and the consumer are scheduled fairly; the
\* callers and the server (frames, faults) are not obliged to do anything
Fairness ==
    \A w \in Watches :
        /\ WF_vars(ListenerWrite(w))
        /\ WF_vars(BodyCloser(w))
        /\ WF_vars(Ship(w))
        /\ WF_vars(ReadClosed(w))
        /\ WF_vars(ShipError(w))
        /\ WF_vars(\E v \in BOOLEAN : ForwardCheck(w, v))
        /\ WF_vars(Deliver(w))
        /\ WF_vars(ForwardClose(w))

LiveSpec == Init /\ [][Next]_vars /\ Fairness

\* the steps of a handle on which Watch is called once
NextOne ==
    \/ \E w \in Watches : WatchCheck(w)
    \/ \E w \in Watches : WatchSetWatching(w)
    \/ \E w \in Watches : WatchOpenFail(w)
    \/ \E w \in Watches : WatchReturnErr(w)
    \/ \E w \in Watches : WatchOpenOk(w)
    \/ \E s \in Stops : StopIsWatching(s)
    \/ \E s \in Stops, w \in Watches : StopSignal(s, w)
    \/ \E s \in Stops : StopSetWatching(s)
    \/ \E w \in Watches : ListenerWrite(w)
    \/ \E w \in Watches : BodyCloser(w)
    \/ \E w \in Watches, t \in WireTypes, k \in PayloadKinds :
          ReadFrame(w, t, k)
    \/ \E w \in Watches : Ship(w)
    \/ \E w \in Watches : ReadFault(w)
    \/ \E w \in Watches : ReadClosed(w)
    \/ \E w \in Watches : ShipError(w)
    \/ \E w \in Watches, v \in BOOLEAN : ForwardCheck(w, v)
    \/ \E w \in Watches : Deliver(w)
    \/ \E w \in Watches : ForwardClose(w)

OneSpec == InitOne /\ [][NextOne]_vars

\* one Watch call on the handle, the frames read line by line
InitFrame ==
    /\ InitHandle
    /\ InitRequest
    /\ quota = [watch |-> 1, stop |-> FrameStop, frames |-> FrameFrames,
                retry |-> 0]

NextFrame ==
    \/ \E w \in Watches : WatchCheck(w)
    \/ \E w \in Watches : WatchSetWatching(w)
    \/ \E w \in Watches : WatchOpenFail(w)
    \/ \E w \in Watches : WatchReturnErr(w)
    \/ \E w \in Watches : WatchOpenOk(w)
    \/ \E s \in Stops : StopIsWatching(s)
    \/ \E s \in Stops, w \in Watches : StopSignal(s, w)
    \/ \E s \in Stops : StopSetWatching(s)
    \/ \E w \in Watches : ListenerWrite(w)
    \/ \E w \in Watches : BodyCloser(w)
    \/ \E w \in Watches, t \in WireTypes :
          \E l \in DataLines(t) : ReadEventLine(w, t, l)
    \/ \E w \in Watches, n \in 0..(MaxData + 1), p \in BOOLEAN :
          ReadDataLine(w, n, p)
    \/ \E w \in Watches : ReadBlankLine(w)
    \/ \E w \in Watches : Ship(w)
    \/ \E w \in Watches : ReadFault(w)
    \/ \E w \in Watches : ReadClosed(w)
    \/ \E w \in Watches : ShipError(w)
    \/ \E w \in Watches, v \in BOOLEAN : ForwardCheck(w, v)
    \/ \E w \in Watches : Deliver(w)
    \/ \E w \in Watches : ForwardClose(w)

FrameSpec == InitFrame /\ [][NextFrame]_vars

(* ------------------- calls that do not overlap ----------------------- *)
(* A caller that issues Watch and StopWatching one after the other: a     *)
(* call begins only when every earlier call has returned. The goroutines  *)
(* of the sessions run on between and during the calls.                   *)

SeqWatchReject(w) == NoCallInProgress /\ WatchReject(w)

SeqWatchCheck(w) == NoCallInProgress /\ WatchCheck(w)

SeqStopIsWatching(s) == NoCallInProgress /\ StopIsWatching(s)

NextSeq ==
    \/ \E w \in Watches : SeqWatchReject(w)
    \/ \E w \in Watches : WatchRejectClose(w)
    \/ \E w \in Watches : SeqWatchCheck(w)
    \/ \E w \in Watches : WatchSetWatching(w)
    \/ \E w \in Watches : WatchOpenFail(w)
    \/ \E w \in Watches : WatchReturnErr(w)
    \/ \E w \in Watches : WatchOpenOk(w)
    \/ \E s \in Stops : SeqStopIsWatching(s)
    \/ \E s \in Stops, w \in Watches : StopSignal(s, w)
    \/ \E s \in Stops : StopSetWatching(s)
    \/ \E w \in Watches : ListenerWrite(w)
    \/ \E w \in Watches : BodyCloser(w)
    \/ \E w \in Watches, t \in WireTypes, k \in PayloadKinds :
          ReadFrame(w, t, k)
    \/ \E w \in Watches : Ship(w)
    \/ \E w \in Watches : ReadFault(w)
    \/ \E w \in Watches : ReadClosed(w)
    \/ \E w \in Watches : ShipError(w)
    \/ \E w \in Watches, v \in BOOLEAN : ForwardCheck(w, v)
    \/ \E w \in Watches : Deliver(w)
    \/ \E w \in Watches : ForwardClose(w)

SeqSpec == Init /\ [][NextSeq]_vars

(* ------------------- the older revision of Watch ---------------------- *)
(* src/unnamed/part_000: StopWatching, isWatching, setWatching and the    *)
(* head of Watch are the same code; there is one goroutine per session,   *)
(* which starts the cancellation listener, reads the frames, sends the    *)
(* events to the consumer itself, and at its end calls n.StopWatching()   *)
(* before close(notifications).  closedManually is guarded by a mutex.    *)
(* Each send on the consumer's channel is a step of its own, which waits  *)
(* for the consumer's receive.                                            *)

\* Event{Type: ..., Data: ...} of that revision
OldEvent(t, d) == [Type |-> t, Data |-> d]

\* client.Do succeeded: the session goroutine starts, and starts the
\* cancellation listener; Watch returns nil
OldWatchOpenOk(w) ==
    /\ wpc[w] = "open"
    /\ wpc' = [wpc EXCEPT ![w] = "started"]
    /\ rl' = [rl EXCEPT ![w] = "read"]
    /\ ls' = [ls EXCEPT ![w] = "wait"]
    /\ UNCHANGED <<watching, spc, fl, bc, got, scanErr, closedManually,
                   stopClosed, bodyClosed, eventsClosed, notifClosed, wire,
                   delivered, hStop, hBrokeFirst, quota>>
    /\ UNCHANGED <<readerVars, requestVars>>

\* the listener: mtx.Lock(); closedManually = true; mtx.Unlock()
OldListenerWrite(w) ==
    /\ ls[w] = "write"
    /\ closedManually' = [closedManually EXCEPT ![w] = TRUE]
    /\ ls' = [ls EXCEPT ![w] = "close"]
    /\ UNCHANGED <<watching, wpc, spc, rl, fl, bc, got, scanErr, stopClosed,
                   bodyClosed, eventsClosed, notifClosed, wire, delivered,
                   hStop, hBrokeFirst, quota>>
    /\ UNCHANGED <<readerVars, requestVars>>

\* the listener: resp.Body.Close()
OldListenerClose(w) ==
    /\ ls[w] = "close"
    /\ bodyClosed' = [bodyClosed EXCEPT ![w] = @ + 1]
    /\ ls' = [ls EXCEPT ![w] = "done"]
    /\ UNCHANGED <<watching, wpc, spc, rl, fl, bc, got, scanErr,
                   closedManually, stopClosed, eventsClosed, notifClosed,
                   wire, delivered, hStop, hBrokeFirst, quota>>
    /\ UNCHANGED <<readerVars, requestVars>>

\* the event the switch of that revision builds from the k-th frame of the
\* stream, of type t: event.Data is set for put and patch only
OldFrameEvent(t, k) ==
    OldEvent(t, IF t \in {EventTypePut, EventTypePatch} THEN k ELSE "")

\* one pass of the scanning loop up to its send: the three ReadLine calls
\* return a whole frame of type t, the event is built and the switch is
\* entered; a frame without an event leaves the loop where it is
OldReadFrame(w, t) ==
    /\ rl[w] = "read"
    /\ FramesRead < quota.frames
    /\ wire' = [wire EXCEPT ![w] = Append(@, t)]
    /\ IF DispatchEmits(t)
       THEN /\ event' = (w :> OldFrameEvent(t, Len(wire[w]) + 1)) @@ event
            /\ rl' = [rl EXCEPT ![w] = "ship"]
       ELSE UNCHANGED <<event, rl>>
    /\ UNCHANGED <<watching, wpc, spc, fl, ls, bc, got, scanErr,
                   closedManually, stopClosed, bodyClosed, eventsClosed,
                   notifClosed, delivered, hStop, hBrokeFirst, quota>>
    /\ UNCHANGED <<result, body, hErrAt, requestVars>>

\* notifications <- event in the switch meets the consumer's receive; after
\* the send of a cancel or auth_revoked event: break scanning
OldShip(w) ==
    /\ rl[w] = "ship"
    /\ delivered' = [delivered EXCEPT ![w] = Append(@, event[w])]
    /\ event' = Without(event, w)
    /\ rl' = [rl EXCEPT
                 ![w] = IF DispatchBreaks(event[w].Type) THEN "check" ELSE "read"]
    /\ UNCHANGED <<watching, wpc, spc, fl, ls, bc, got, scanErr,
                   closedManually, stopClosed, bodyClosed, eventsClosed,
                   notifClosed, wire, hStop, hBrokeFirst, quota>>
    /\ UNCHANGED <<result, body, hErrAt, requestVars>>

\* a ReadLine call returns an error: break scanning; "fault" while the
\* body is open, "closed" once the listener has closed it
OldReadError(w) ==
    /\ rl[w] = "read"
    /\ scanErr' = [scanErr EXCEPT
                      ![w] = IF bodyClosed[w] = 0 THEN "fault" ELSE "closed"]
    /\ rl' = [rl EXCEPT ![w] = "check"]
    /\ UNCHANGED <<watching, wpc, spc, fl, ls, bc, got, closedManually,
                   stopClosed, bodyClosed, eventsClosed, notifClosed, wire,
                   delivered, hStop, hBrokeFirst, quota>>
    /\ UNCHANGED <<readerVars, requestVars>>

\* closed := closedManually under the mutex; if !closed && scanErr != nil
\* the goroutine goes to the send of the error event
OldCheck(w) ==
    /\ rl[w] = "check"
    /\ rl' = [rl EXCEPT
                 ![w] = IF ~closedManually[w] /\ scanErr[w] # "nil"
                        THEN "shiperr" ELSE "stop"]
    /\ UNCHANGED <<watching, wpc, spc, fl, ls, bc, got, scanErr,
                   closedManually, stopClosed, bodyClosed, eventsClosed,
                   notifClosed, wire, delivered, hStop, hBrokeFirst, quota>>
    /\ UNCHANGED <<readerVars, requestVars>>

\* notifications <- Event{Type: EventTypeError, Data: scanErr.Error()}
\* meets the consumer's receive
OldShipError(w) ==
    /\ rl[w] = "shiperr"
    /\ delivered' = [delivered EXCEPT
                        ![w] = Append(@, OldEvent(EventTypeError, scanErr[w]))]
    /\ rl' = [rl EXCEPT ![w] = "stop"]
    /\ UNCHANGED <<watching, wpc, spc, fl, ls, bc, got, scanErr,
                   closedManually, stopClosed, bodyClosed, eventsClosed,
                   notifClosed, wire, hStop, hBrokeFirst, quota>>
    /\ UNCHANGED <<readerVars, requestVars>>

\* n.StopWatching() at the end of the session goroutine: if n.isWatching()
OldLoopIsWatching(w) ==
    /\ rl[w] = "stop"
    /\ rl' = [rl EXCEPT ![w] = IF watching THEN "signal" ELSE "close"]
    /\ UNCHANGED <<watching, wpc, spc, fl, ls, bc, got, scanErr,
                   closedManually, stopClosed, bodyClosed, eventsClosed,
                   notifClosed, wire, delivered, hStop, hBrokeFirst, quota>>
    /\ UNCHANGED <<readerVars, requestVars>>

\* its n.stopWatching <- struct{}{} meets a listener's <-n.stopWatching
OldLoopSignal(w, v) ==
    /\ rl[w] = "signal"
    /\ ls[v] = "wait"
    /\ rl' = [rl EXCEPT ![w] = "clear"]
    /\ ls' = [ls EXCEPT ![v] = "write"]
    /\ UNCHANGED <<watching, wpc, spc, fl, bc, got, scanErr,
                   closedManually, stopClosed, bodyClosed, eventsClosed,
                   notifClosed, wire, delivered, hStop, hBrokeFirst, quota>>
    /\ UNCHANGED <<readerVars, requestVars>>

\* its n.setWatching(false)
OldLoopSetWatching(w) ==
    /\ rl[w] = "clear"
    /\ watching' = FALSE
    /\ rl' = [rl EXCEPT ![w] = "close"]
    /\ UNCHANGED <<wpc, spc, fl, ls, bc, got, scanErr,
                   closedManually, stopClosed, bodyClosed, eventsClosed,
                   notifClosed, wire, delivered, hStop, hBrokeFirst, quota>>
    /\ UNCHANGED <<readerVars, requestVars>>

\* close(notifications)
OldClose(w) ==
    /\ rl[w] = "close"
    /\ notifClosed' = [notifClosed EXCEPT ![w] = @ + 1]
    /\ rl' = [rl EXCEPT ![w] = "done"]
    /\ UNCHANGED <<watching, wpc, spc, fl, ls, bc, got, scanErr,
                   closedManually, stopClosed, bodyClosed, eventsClosed,
                   wire, delivered, hStop, hBrokeFirst, quota>>
    /\ UNCHANGED <<readerVars, requestVars>>

InitOld ==
    /\ InitHandle
    /\ InitRequest
    /\ quota = [watch |-> OldWatch, stop |-> OldStop, frames |-> OldFrames,
                retry |-> 0]

NextOld ==
    \/ \E w \in Watches : WatchReject(w)
    \/ \E w \in Watches : WatchRejectClose(w)
    \/ \E w \in Watches : WatchCheck(w)
    \/ \E w \in Watches : WatchSetWatching(w)
    \/ \E w \in Watches : WatchOpenFail(w)
    \/ \E w \in Watches : WatchReturnErr(w)
    \/ \E w \in Watches : OldWatchOpenOk(w)
    \/ \E s \in Stops : StopIsWatching(s)
    \/ \E s \in Stops, w \in Watches : StopSignal(s, w)
    \/ \E s \in Stops : StopSetWatching(s)
    \/ \E w \in Watches : OldListenerWrite(w)
    \/ \E w \in Watches : OldListenerClose(w)
    \/ \E w \in Watches, t \in WireTypes : OldReadFrame(w, t)
    \/ \E w \in Watches : OldShip(w)
    \/ \E w \in Watches : OldReadError(w)
    \/ \E w \in Watches : OldCheck(w)
    \/ \E w \in Watches : OldShipError(w)
    \/ \E w \in Watches : OldLoopIsWatching(w)
    \/ \E w, v \in Watches : OldLoopSignal(w, v)
    \/ \E w \in Watches : OldLoopSetWatching(w)
    \/ \E w \in Watches : OldClose(w)

\* every goroutine that can take a step takes one, a caller inside
\* StopWatching included, a read on a closed body returns, and the consumer
\* receives what it is sent; the server and the callers are not obliged to
\* do anything
OldFairness ==
    /\ \A s \in Stops :
          /\ WF_vars(\E w \in Watches : StopSignal(s, w))
          /\ WF_vars(StopSetWatching(s))
    /\ \A w \in Watches :
          /\ WF_vars(OldListenerWrite(w))
          /\ WF_vars(OldListenerClose(w))
          /\ WF_vars(bodyClosed[w] > 0 /\ OldReadError(w))
          /\ WF_vars(OldShip(w))
          /\ WF_vars(OldCheck(w))
          /\ WF_vars(OldShipError(w))
          /\ WF_vars(OldLoopIsWatching(w))
          /\ WF_vars(\E v \in Watches : OldLoopSignal(w, v))
          /\ WF_vars(OldLoopSetWatching(w))
          /\ WF_vars(OldClose(w))

OldLiveSpec == InitOld /\ [][NextOld]_vars /\ OldFairness

(* -------------------------- the redirect check ------------------------ *)
(* The default client of New has CheckRedirect: redirectPreserveHeaders:  *)
(* http.Client calls it before it follows a redirect, with the request to *)
(* come and the requests made so far, oldest first.                       *)

HeaderKeys == {"Accept", "Authorization"}

HeaderValues == {"text/event-stream", "secret"}

\* the http.Header values over these keys
Headers == UNION {[K -> HeaderValues] : K \in SUBSET HeaderKeys}

\* a check that refuses the hop that reaches the limit
RedirectRefusedAtLimit(n) == n >= defaultRedirectLimit

\* len(via) > defaultRedirectLimit
RedirectRefused(n) == n > defaultRedirectLimit

\* for key, val := range via[0].Header { req.Header[key] = val }
PreserveHeaders(r, first) ==
    [k \in DOMAIN r \cup DOMAIN first |->
        IF k \in DOMAIN first THEN first[k] ELSE r[k]]

\* redirectPreserveHeaders(req, via), via holding n requests of which the
\* first has the header first: the error returned and req.Header afterwards
redirectPreserveHeaders(r, n, first) ==
    IF n = 0 THEN [err |-> CheckPassed, Header |-> r]
    ELSE IF RedirectRefused(n)
         THEN [err |-> [ok |-> FALSE, hops |-> n], Header |-> r]
         ELSE [err |-> CheckPassed, Header |-> PreserveHeaders(r, first)]

\* client.Do(req) sends the first request, whose header is h
ClientDo(h) ==
    /\ viaLen = 0
    /\ via0' = h
    /\ req' = h
    /\ viaLen' = 1
    /\ UNCHANGED <<checkErr, resp, ret, hops, url>>
    /\ UNCHANGED <<handleVars, sessionVars, readerVars>>

\* the server answers with a redirect: the client builds the next request,
\* with header h, has it checked, and sends it unless the check refuses
CheckRedirect(h) ==
    LET out == redirectPreserveHeaders(h, viaLen, via0)
    IN /\ viaLen >= 1 /\ viaLen < MaxHops
       /\ checkErr.ok
       /\ checkErr' = out.err
       /\ req' = out.Header
       /\ viaLen' = IF out.err.ok THEN viaLen + 1 ELSE viaLen
       /\ UNCHANGED <<via0, resp, ret, hops, url>>
       /\ UNCHANGED <<handleVars, sessionVars, readerVars>>

InitRedirect ==
    /\ InitHandle
    /\ InitRequest
    /\ quota = [watch |-> 0, stop |-> 0, frames |-> 0, retry |-> 0]

NextRedirect ==
    \/ \E h \in Headers : ClientDo(h)
    \/ \E h \in Headers : CheckRedirect(h)

RedirectSpec == InitRedirect /\ [][NextRedirect]_vars

(* ------------------------------ doRequest ----------------------------- *)

StatusCodes == 100..MaxStatus

\* what client.Do returns as its error: nil, an error that is neither a
\* *url.Error nor a net.Error, and the two of these with and without Timeout()
DoErrors == {"nil", "other", "url-timeout", "url-error", "net-timeout", "net-error"}

\* a response body: JSON that decodes into an APIError, or not
BodyKinds == {"json", "garbage"}

\* resp.StatusCode/200 != 1
NotSuccess(code) == (code \div 200) # 1

\* strings.Split(loc.String(), "/.json")[0]
Retarget(loc) == Split(loc, JSONSuffix)[1]

\* one call of doRequest, the recursive calls after a 307 included one by
\* one: client.Do returns the error e or a response with status st and the
\* Location header loc (or none), whose body can be read or not (rd) and is
\* of kind js
doRequest(e, st, loc, rd, js) ==
    /\ ret = NoReturn
    /\ CASE e \in {"other", "url-error", "net-error"} ->
              /\ ret' = [body |-> "nil", err |-> e]
              /\ UNCHANGED <<resp, hops, url>>
         [] e \in {"url-timeout", "net-timeout"} ->
              \* apiTimeoutError()
              /\ ret' = [body |-> "nil", err |-> "nestapi#timeout"]
              /\ UNCHANGED <<resp, hops, url>>
         [] e = "nil" /\ st = StatusTemporaryRedirect /\ loc = NoLocation ->
              \* resp.Location() fails
              /\ resp' = [StatusCode |-> st, Body |-> js]
              /\ ret' = [body |-> "nil", err |-> "no-location"]
              /\ UNCHANGED <<hops, url>>
         [] e = "nil" /\ st = StatusTemporaryRedirect /\ loc # NoLocation ->
              \* n.url = ...; return n.doRequest(method, body)
              /\ hops < quota.retry
              /\ resp' = [StatusCode |-> st, Body |-> js]
              /\ url' = Retarget(loc)
              /\ hops' = hops + 1
              /\ UNCHANGED ret
         [] e = "nil" /\ st # StatusTemporaryRedirect ->
              /\ resp' = [StatusCode |-> st, Body |-> js]
              /\ ret' = IF ~rd THEN [body |-> "nil", err |-> "read-error"]
                        ELSE IF NotSuccess(st)
                             THEN IF js = "json"
                                  THEN [body |-> "nil", err |-> "APIError"]
                                  ELSE [body |-> "nil", err |-> "nestapi#json-parse"]
                             ELSE [body |-> js, err |-> "nil"]
              /\ UNCHANGED <<hops, url>>
    /\ UNCHANGED <<viaLen, via0, req, checkErr>>
    /\ UNCHANGED <<handleVars, sessionVars, readerVars>>

InitDoRequest ==
    /\ InitHandle
    /\ InitRequest
    /\ quota = [watch |-> 0, stop |-> 0, frames |-> 0, retry |-> MaxRetry]

NextDoRequest ==
    \E e \in DoErrors, st \in StatusCodes,
       loc \in {NoLocation, <<HostB, JSONSuffix>>}, rd \in BOOLEAN,
       js \in BodyKinds : doRequest(e, st, loc, rd, js)

RequestSpec == InitDoRequest /\ [][NextDoRequest]_vars

\* doRequest against a server that redirects: what client.Do hands back is
\* a 307 with any of the Location headers or with none, another status, or
\* the error of a client that gave up
RetryErrors == {"nil", "url-error"}

RetryStatuses == {200, StatusTemporaryRedirect, 404}

InitRetry ==
    /\ InitHandle
    /\ InitRequest
    /\ quota = [watch |-> 0, stop |-> 0, frames |-> 0, retry |-> RetryHops]

NextRetry ==
    \E e \in RetryErrors, st \in RetryStatuses,
       loc \in Locations \cup {NoLocation}, rd \in BOOLEAN,
       js \in BodyKinds : doRequest(e, st, loc, rd, js)

RetrySpec == InitRetry /\ [][NextRetry]_vars

(* ------------------- vocabulary of the properties --------------------- *)

Last(q) == q[Len(q)]

IsPrefix(a, b) == Len(a) <= Len(b) /\ SubSeq(b, 1, Len(a)) = a

IsError(e) == e.Type = "event_error"

NotError(e) == e.Type # "event_error"

ErrorCount(q) == Cardinality({i \in 1..Len(q) : IsError(q[i])})

\* the sessions: the Watch calls that opened a stream
Started(w) == wpc[w] = "started"

Closed(w) == notifClosed[w] = 1

\* the frames read that the switch could handle: a put or patch frame
\* whose payload could not be decoded is the last frame read
FramesDecoded(w) ==
    IF scanErr[w] = "decode" \/ rl[w] = "panic"
    THEN SubSeq(wire[w], 1, Len(wire[w]) - 1)
    ELSE wire[w]

\* the frames q, each with its place in the stream
Numbered(q) == [k \in 1..Len(q) |-> [Type |-> q[k], RawData |-> k]]

\* what a consumer is to see of the frames q: one event per put, patch,
\* cancel and auth_revoked frame, in the order of the frames, each with the
\* payload of its frame
IsDataFrame(e) == e.Type \in {"put", "patch", "cancel", "auth_revoked"}

ExpectedEvents(q) == SelectSeq(Numbered(q), IsDataFrame)

\* the same with the keep-alive and rules_debug frames taken out of the
\* stream first
IsNoise(e) == e.Type \in {"keep-alive", "rules_debug"}

IsNotNoise(e) == ~IsNoise(e)

WithoutNoise(q) == SelectSeq(Numbered(q), IsNotNoise)

\* the type and the payload of the events q
Marks(q) == [i \in 1..Len(q) |-> [Type |-> q[i].Type, RawData |-> q[i].RawData]]

\* the events of session w that are not error events: those the consumer
\* has received, and those on their way to it (the one the forward loop
\* holds, then the one the read loop is about to send)
Seen(w) == Marks(SelectSeq(delivered[w], NotError))

OnTheWay(w) ==
    Marks((IF fl[w] = "send" /\ NotError(got[w]) THEN <<got[w]>> ELSE <<>>)
          \o (IF w \in DOMAIN event THEN <<event[w]>> ELSE <<>>))

\* the positions of the cancel and auth_revoked frames among the frames read
Terminators(w) ==
    {k \in 1..Len(wire[w]) : wire[w][k] \in {"cancel", "auth_revoked"}}

(* ------------------------------ claims -------------------------------- *)

\* C1: at any instant at most one watch session is active on the handle,
\* a session being active from the opening of its stream to the closing of
\* its consumer channel.  The code checks and sets the flag in two steps and
\* clears it before the session has ended, so this is violated.
C1_AtMostOneActiveSession ==
    Cardinality({w \in Watches : Active(w)}) <= 1

\* C2: every session whose exit has begun (its read loop has left its loop
\* on a fault or on a cancel/auth_revoked frame, or its cancellation
\* listener has taken a stop signal) eventually has its consumer channel
\* closed, and no consumer channel is ever closed more than once.
\* Violated: a put or patch frame whose payload has no string path, read
\* after the stop signal was taken, panics in the read loop (C13), and the
\* channel is never closed.
C2_ChannelEventuallyClosedOnce ==
    /\ [](\A w \in Watches : notifClosed[w] <= 1)
    /\ \A w \in Watches :
          (Started(w) /\ (rl[w] \in {"shiperr", "done"}
                             \/ ls[w] \in {"write", "done"}))
              ~> Closed(w)

\* C3: a Watch call made while a session is active finds the flag set and
\* goes on to close the channel it was given, starts nothing and leaves the
\* sessions as they are; when it has returned its channel is closed and
\* nothing was sent on it.  Violated: the flag can be false while a session
\* is active.
C3_WatchOnActiveHandleOnlyCloses ==
    /\ [][\A w \in Watches :
            (wpc[w] = "idle" /\ wpc'[w] # "idle" /\ \E v \in Watches : Active(v))
                => /\ wpc'[w] = "reject"
                   /\ UNCHANGED sessionVars]_vars
    /\ [][\A w \in Watches :
            (wpc[w] = "reject" /\ wpc'[w] # "reject")
                => /\ wpc'[w] = "rejected"
                   /\ notifClosed'[w] = 1
                   /\ delivered'[w] = <<>>
                   /\ UNCHANGED sessionVars]_vars

\* C4: once StopWatching has been invoked during a session, no event_error
\* event is delivered on the session's consumer channel.  Violated when the
\* stream breaks by itself around the stop.
C4_NoErrorEventAfterStop ==
    [][\A w \in Watches :
          (hStop[w] = "active" /\ delivered'[w] # delivered[w])
              => NotError(Last(delivered'[w]))]_vars

\* C5: a session whose stream broke before any StopWatching was invoked
\* ends with exactly one event_error event, which is the last event on the
\* channel.  Violated when StopWatching comes between the break and the
\* forwarding of the error event.
C5_BreakYieldsOneErrorEvent ==
    \A w \in Watches :
        (hBrokeFirst[w] /\ Closed(w))
            => /\ ErrorCount(delivered[w]) = 1
               /\ IsError(Last(delivered[w]))

\* C6: once the read loop has decoded a cancel or auth_revoked frame, it
\* reads no further frame and ends without an error as soon as the event
\* of that frame is sent; the consumer gets no event_error event and no
\* event after the one of that frame, and when the channel is closed it has
\* received that event exactly once, as the last.
C6_TerminatorEndsSession ==
    \A w \in Watches : \A k \in Terminators(w) :
        /\ k = Len(wire[w])
        /\ rl[w] \in {"ship", "done"} /\ scanErr[w] = "nil"
        /\ eventsClosed[w] = IF rl[w] = "done" THEN 1 ELSE 0
        /\ ErrorCount(delivered[w]) = 0 /\ NotError(got[w])
        /\ LET e == [Type |-> wire[w][k], RawData |-> k]
               n == Cardinality({i \in 1..Len(Seen(w)) : Seen(w)[i] = e})
           IN /\ n <= 1
              /\ n = 1 => Last(Seen(w)) = e /\ OnTheWay(w) = <<>>
              /\ n = 0 => OnTheWay(w) # <<>> /\ Last(OnTheWay(w)) = e
              /\ Closed(w) => n = 1

C6_Witness ==
    \E w \in Watches :
        /\ Closed(w) /\ Terminators(w) # {} /\ Len(delivered[w]) = 2
        /\ FramesRead < quota.frames

\* C7: when every session has ended and no call is in progress, the
\* watching flag is cleared, so that the next Watch starts a session.
\* Violated: only StopWatching clears the flag of a started session.
C7_FlagClearedWhenSessionEnds ==
    (/\ NoCallInProgress
     /\ \E w \in Watches : Started(w)
     /\ \A w \in Watches : ~Active(w))
        => ~watching

\* C8: a StopWatching call that finds the watching flag false returns in
\* that step and changes nothing: not the flag, not a sender or a receiver
\* of the stopWatching channel, no stop token, no consumer channel.
C8_StopOnIdleHandleIsNoOp ==
    [][\A s \in Stops :
          (spc[s] = "idle" /\ spc'[s] # "idle" /\ ~watching)
              => /\ spc'[s] = "noop"
                 /\ \A r \in Stops \ {s} : spc'[r] = spc[r]
                 /\ UNCHANGED <<watching, wpc, notifClosed, quota>>
                 /\ UNCHANGED sessionVars]_vars

C8_Witness ==
    \E s \in Stops : spc[s] = "noop" /\ \E w \in Watches : Active(w)

\* C9: the events on a consumer channel, the error event aside, are the
\* events of the put, patch, cancel and auth_revoked frames read so far, in
\* the order of the frames, without a duplicate; the ones missing at most
\* are those on their way (held by the forward loop, or by the read loop at
\* its send), and none is missing once the channel is closed.
C9_EventsInFrameOrder ==
    \A w \in Watches :
        /\ Seen(w) \o OnTheWay(w) = ExpectedEvents(FramesDecoded(w))
        /\ Closed(w) => Seen(w) = ExpectedEvents(FramesDecoded(w))
        /\ \A i \in 1..Len(delivered[w]) :
              IsError(delivered[w][i]) => i = Len(delivered[w])

\* the consumer has received the events of all three frames of a session
\* on which StopWatching was called as well
C9_Witness ==
    \E w \in Watches :
        /\ Closed(w) /\ Len(delivered[w]) = 3 /\ hStop[w] # "none"
        /\ delivered[w][1].Type = "put" /\ delivered[w][2].Type = "patch"
        /\ delivered[w][3].Type = "auth_revoked"

\* C10: a keep-alive or rules_debug frame changes nothing but the stream
\* position: the read loop stays in its loop, no event is shipped, nothing
\* is closed; and the consumer is sent exactly the events of the stream with
\* these frames taken out.
C10_NoiseFramesAreSkipped ==
    /\ [][\A w \in Watches :
            (Len(wire'[w]) = Len(wire[w]) + 1 /\ Last(wire'[w]) \in {"keep-alive", "rules_debug"})
                => /\ rl'[w] = "read"
                   /\ UNCHANGED <<fl, got, event, delivered, scanErr,
                                  eventsClosed, notifClosed>>]_vars
    /\ [](\A w \in Watches :
            Seen(w) \o OnTheWay(w)
                = SelectSeq(WithoutNoise(FramesDecoded(w)), IsDataFrame))

C10_Witness ==
    \E w \in Watches :
        /\ Len(wire[w]) = 3 /\ wire[w][2] \in {"keep-alive", "rules_debug"}
        /\ Len(delivered[w]) = 2 /\ delivered[w][2].RawData = 3

\* C11 as stated: a Watch whose stream fails to open starts no goroutine
\* (read loop, forward loop, cancellation listener, body closer), its
\* consumer channel gets no event and is never closed, and the watching
\* flag is false when the call returns.  Violated: between the
\* n.setWatching(false) in watch() and the return of Watch, another Watch
\* call can find the flag false and set it for its own session.
C11_FlagFalseAtReturn ==
    /\ [][\A w \in Watches :
            (wpc[w] = "fail" /\ wpc'[w] = "failed")
                => /\ ~watching'
                   /\ UNCHANGED <<rl, fl, ls, bc, delivered, notifClosed>>]_vars
    /\ [](\A w \in Watches :
            wpc[w] \in {"fail", "failed"}
                => /\ rl[w] = "off" /\ fl[w] = "off"
                   /\ ls[w] = "off" /\ bc[w] = "off"
                   /\ delivered[w] = <<>> /\ notifClosed[w] = 0)

\* C11, amended: a Watch whose stream fails to open clears the watching
\* flag before it returns and starts no goroutine; from the clearing to its
\* return it changes nothing more, and the flag is set again in that time
\* only by the n.setWatching(true) of another Watch call; its consumer
\* channel gets no event and is never closed.
C11_FailedOpenStartsNothing ==
    /\ [][\A w \in Watches :
            (wpc[w] = "open" /\ wpc'[w] = "fail")
                => /\ ~watching'
                   /\ UNCHANGED <<rl, fl, ls, bc, delivered, notifClosed>>]_vars
    /\ [][\A w \in Watches :
            (wpc[w] = "fail" /\ wpc'[w] = "failed")
                => UNCHANGED <<watching, rl, fl, ls, bc, delivered,
                               notifClosed>>]_vars
    /\ [][\A w \in Watches :
            (wpc[w] = "fail" /\ ~watching /\ watching')
                => \E v \in Watches \ {w} :
                      wpc[v] = "set" /\ wpc'[v] = "open"]_vars
    /\ [](\A w \in Watches :
            wpc[w] \in {"fail", "failed"}
                => /\ rl[w] = "off" /\ fl[w] = "off"
                   /\ ls[w] = "off" /\ bc[w] = "off"
                   /\ delivered[w] = <<>> /\ notifClosed[w] = 0)

\* a failed Watch call has returned while the flag is set by the other
\* Watch call, whose session is running
C11_Witness ==
    \E w \in Watches :
        /\ wpc[w] = "failed" /\ watching
        /\ \E v \in Watches \ {w} : Active(v)

\* the payload of the frame the server is writing
PayloadOf(f) == SubSeq(f.line, 2, Len(f.line))

\* the step that ends the reading of one frame of session w
FrameStep(w) == rl[w] = "blank" /\ rl'[w] # "blank" /\ Len(wire'[w]) = Len(wire[w]) + 1

\* the error events that went up from the read loop of session w
ErrorsUp(w) ==
    ErrorCount(delivered[w]) + (IF IsError(got[w]) THEN 1 ELSE 0)

\* C12: a whole frame whose event type the switch has no case for ends
\* the session as a decode error: the read loop leaves its loop with an
\* error set, towards the send of the event_error event.  Violated: the
\* switch has no default case, the frame is dropped and the loop reads on.
C12_UnknownTypeIsDecodeError ==
    [][\A w \in Watches :
          (FrameStep(w) /\ body[w].type \notin FrameTypes)
              => /\ rl'[w] = "shiperr"
                 /\ scanErr'[w] # "nil"]_vars

\* C13: a put or patch frame whose payload is not a JSON object with a
\* string "path" ends the session as a decode error: no put/patch event is
\* built, the read loop leaves its loop with the decode error set, towards
\* the send of the event_error event, and does not crash.
\* Violated: with valid JSON whose path is missing or no string, the type
\* assertion data["path"].(string) panics.
C13_BadPayloadIsDecodeError ==
    [][\A w \in Watches :
          (/\ FrameStep(w)
           /\ body[w].type \in {"put", "patch"}
           /\ PayloadOf(body[w]) # <<PathIsString>>)
              => /\ rl'[w] = "shiperr"
                 /\ scanErr'[w] = "decode"
                 /\ w \notin DOMAIN event'
                 /\ got'[w] = got[w] /\ delivered'[w] = delivered[w]]_vars

\* C14: however the data line is cut into fragments, when the frame is
\* complete the read loop holds the event line, the data line equal to the
\* line the server wrote, piece for piece, and nothing else; it has taken
\* the whole line, and the frame counts as one frame.
C14_DataLineReassembled ==
    /\ [][\A w \in Watches :
            FrameStep(w)
                => /\ wire'[w] = Append(wire[w], body[w].type)]_vars
    /\ [](\A w \in Watches :
            rl[w] = "blank"
                => /\ Split(result[w], NL)
                        = <<(<<EventPrefix, body[w].type>>), body[w].line, <<>>>>
                   /\ body[w].sent = Len(body[w].line)
                   /\ ParseEvent(result[w]).RawData = PayloadOf(body[w]))

C14_Witness ==
    \E w \in DOMAIN body :
        /\ rl[w] = "blank" /\ body[w].reads = MaxData + 1
        /\ Len(body[w].line) = MaxData + 1

\* C15: the redirect check lets a redirect pass exactly while the number
\* of requests made is at most 30, and then the request to come carries
\* every header of the first request with the first request's value; past
\* 30 it returns an error that names the number of requests, and the
\* request is not sent.
C15_RedirectCheck ==
    /\ [][viaLen >= 1
            => /\ viaLen <= defaultRedirectLimit
                  => /\ viaLen' = viaLen + 1
                     /\ checkErr'.ok
                     /\ \A k \in DOMAIN via0 :
                           k \in DOMAIN req' /\ req'[k] = via0[k]
               /\ viaLen > defaultRedirectLimit
                  => /\ viaLen' = viaLen
                     /\ ~checkErr'.ok /\ checkErr'.hops = viaLen]_requestVars
    /\ [](viaLen <= defaultRedirectLimit + 1)

C15_Witness ==
    /\ ~checkErr.ok /\ checkErr.hops = defaultRedirectLimit + 1
    /\ DOMAIN via0 = HeaderKeys /\ via0["Accept"] = "text/event-stream"

\* C16: when doRequest has read the body of a response that is no 307,
\* it returns an APIError (the one in the body, or the json-parse one) if
\* the status code is outside 200..299, and the body with a nil error only
\* if the status code is in 200..299.  Violated: the test is
\* StatusCode/200 != 1, which takes 300..399 for a success.
C16_NonSuccessIsAPIError ==
    (/\ ret # NoReturn /\ resp # NoResponse
     /\ resp.StatusCode # StatusTemporaryRedirect
     /\ ret.err # "read-error")
        => /\ resp.StatusCode \notin 200..299
                => /\ ret.err \in {"APIError", "nestapi#json-parse"}
                   /\ ret.body = "nil"
           /\ ret.err = "nil" => resp.StatusCode \in 200..299

\* C17: a StopWatching call that found the flag set and is at its send
\* always has a receiver: a cancellation listener is waiting on the
\* stopWatching channel, or a Watch call under way is about to start one.
\* Violated: nothing ties the number of senders to the number of listeners.
C17_StopSignalHasReceiver ==
    \A s \in Stops :
        spc[s] = "send"
            => \E w \in Watches : ls[w] = "wait" \/ wpc[w] \in {"set", "open"}

\* C18: in the older revision, once the caller has invoked StopWatching
\* on an active session, the consumer channel of that session is
\* eventually closed.  Violated: the session goroutine's own StopWatching
\* can find the flag still set after the only listener has been used up.
C18_OldStopClosesChannel ==
    \A w \in Watches : (hStop[w] = "active") ~> Closed(w)

\* C19: the write of closedManually by the cancellation listener and the
\* read of it by the forward loop are never both the next step of their
\* goroutines.  Violated in watch.go: the two accesses take no lock.
C19_ClosedManuallySynchronised ==
    \A w \in Watches : ~(ls[w] = "write" /\ fl[w] = "check")

\* C20: a read error at the event line, at a fragment of the data line or
\* at the blank line ends the scanning loop in that step; the frame under
\* way yields no event and is no frame read; and the error goes up as an
\* event_error event, the only one of the session, with which the read
\* loop ends.
C20_ReadErrorDiscardsFrame ==
    /\ [][\A w \in Watches :
            (scanErr[w] = "nil" /\ scanErr'[w] \in {"fault", "closed"})
                => /\ rl'[w] = "shiperr"
                   /\ wire'[w] = wire[w]
                   /\ event' = event /\ w \notin DOMAIN event
                   /\ got'[w] = got[w] /\ delivered'[w] = delivered[w]]_vars
    /\ [][\A w \in Watches :
            (rl[w] = "shiperr" /\ rl'[w] # "shiperr")
                => /\ rl'[w] = "done" /\ eventsClosed'[w] = 1
                   /\ IsError(got'[w]) /\ got'[w].Data = scanErr[w]]_vars
    /\ [](\A w \in Watches :
            /\ ErrorsUp(w) <= 1
            /\ scanErr[w] \in {"fault", "closed"}
                  => rl[w] \in {"shiperr", "done"} /\ w \notin DOMAIN event)

C20_Witness ==
    \E w \in DOMAIN hErrAt :
        /\ hErrAt[w] = "blank" /\ body[w].sent = Len(body[w].line)
        /\ body[w].type = "put" /\ PayloadOf(body[w]) = <<PathIsString>>
        /\ Closed(w) /\ Len(delivered[w]) = 1 /\ IsError(delivered[w][1])

\* C21: a doRequest call that receives a 307 with a Location header sets
\* the handle's base URL to the Location cut at "/.json" and calls itself
\* again, and it follows at most defaultRedirectLimit (30) such answers in
\* a row: a server that answers 307 every time gets an error, not a 31st
\* retry.
C21_RetriesCappedAt30 ==
    /\ [][hops' # hops =>
            /\ hops' = hops + 1
            /\ ret' = NoReturn
            /\ \E loc \in Locations : url' = Retarget(loc)]_vars
    /\ [](hops <= defaultRedirectLimit)

\* C22: whatever the interleaving of Watch calls (each with a channel of
\* its own), StopWatching calls and stream events, no channel of a call is
\* closed twice (the consumer channel, the internal event channel, the
\* stop token), the forward loop never holds an event to send on a closed
\* consumer channel, and the read loop never reads on towards a send, or
\* stands at a send, once the internal event channel is closed.
C22_NoPanicOnAChannel ==
    \A w \in Watches :
        /\ notifClosed[w] <= 1
        /\ eventsClosed[w] <= 1
        /\ stopClosed[w] <= 1
        /\ fl[w] = "send" => notifClosed[w] = 0
        /\ rl[w] \in {"read", "data", "blank", "ship", "shiperr"}
              => eventsClosed[w] = 0

\* a session that delivered an event and was stopped has closed its three
\* channels, and another Watch call was refused and closed its channel
C22_Witness ==
    \E w \in Watches, v \in Watches :
        /\ w # v
        /\ wpc[v] = "rejected" /\ notifClosed[v] = 1
        /\ Len(delivered[w]) = 1
        /\ stopClosed[w] = 1 /\ eventsClosed[w] = 1 /\ notifClosed[w] = 1

\* the cancellation listeners waiting in <-n.stopWatching
Listening == {w \in Watches : ls[w] = "wait"}

\* C23: when Watch and StopWatching calls do not overlap, then whenever no
\* call is under way exactly one cancellation listener waits on the
\* stopWatching channel if the watching flag is set and none if it is not;
\* and the listener that takes a stop signal is the listener of the session
\* started last.
C23_OneListenerIffWatching ==
    /\ [](NoCallInProgress =>
             Cardinality(Listening) = IF watching THEN 1 ELSE 0)
    /\ [][\A w \in Watches :
             (ls[w] = "wait" /\ ls'[w] = "write") =>
                 \A v \in Watches : Started(v) => v <= w]_vars

\* the second session was started after the first was stopped, and was
\* stopped by a signal of its own: both calls have returned
C23_Witness ==
    /\ NoCallInProgress
    /\ \A w \in Watches : Started(w) /\ ls[w] = "done"
    /\ \A s \in Stops : spc[s] = "done"
    /\ ~watching

\* C24: the response body of a session is never closed twice, and once
\* the session has ended (its consumer channel is closed) the body is
\* eventually closed and the body closer and the cancellation listener
\* have finished, whether or not StopWatching is ever called.
C24_BodyEventuallyClosed ==
    /\ [](\A w \in Watches : bodyClosed[w] <= 1)
    /\ \A w \in Watches :
          (Started(w) /\ Closed(w))
              ~> (bodyClosed[w] = 1 /\ bc[w] = "done" /\ ls[w] = "done")

====
